---- MODULE Spec2Model ----
(***************************************************************************)
(* AudioMind: the background job queue (BackgroundProcessor, lib/utils.ts), *)
(* the transcription engine (GoogleSpeechToTextService, lib/google-speech.ts:*)
(* strategy selection, chunked path, submit-and-poll path, merge of the    *)
(* chunk results) and the orchestrator (AudioProcessingService.processAudio).*)
(*                                                                         *)
(* JavaScript runs every handler to its next await without interleaving,   *)
(* so one action is one synchronous block: a client call, or the code      *)
(* between two suspension points of a run or of the supervisor loop.       *)
(***************************************************************************)
EXTENDS Integers, Sequences, FiniteSets, TLC

\* ------------------------------------------------------------------ bounds
MaxJobs == 3            \* files enqueued over one behaviour

\* ------------------------------------------------------- program constants
maxConcurrent == 2      \* BackgroundProcessor.maxConcurrent
SyncLimit == 60         \* transcribe: duration > 60 leaves the synchronous path
NoteLimit == 58         \* transcribe: duration > 58 prefixes the note
ChunkSeconds == 50      \* transcribeChunkedAudio: splitAudioIntoChunks(audioBlob, 50, 5)
OverlapSeconds == 5

Jobs == 1..MaxJobs

VARIABLES
  \* BackgroundProcessor
  queue,              \* this.queue, as the sequence of item ids
  status,             \* item.status of every item object ("none": not created)
  trail,              \* every assignment to item.status, in order: the value and the method
  progress,           \* item.progress
  error,              \* item.error ("none": undefined)
  isProcessing,       \* this.isProcessing
  processingService,  \* "unset" | "nokey" | "keyed"
  sup,                \* position of startProcessing: "idle" | "awaitBatch" | "sleep"
  batch,              \* the items of the Promise.all the supervisor awaits
  loops,              \* calls of startProcessing that are inside the while loop
  run,                \* position of processItem(item)
  result,             \* processItem: result, the outcome processAudio resolved to
  created,            \* number of items created so far
  \* collaborators
  sessions,           \* session store: status and progress of each item's session
  notified,           \* every addNotification call, in order
  \* observation of the client calls
  observed,           \* the client operations whose calls are recorded
  lastOp,             \* the last step, when it was a call of an observed operation
  cancelledAt,        \* the status the item had when cancelItem removed it
  \* GoogleSpeechToTextService.transcribe
  tpc,                \* position of transcribe
  duration,           \* what getAudioDuration resolves to, in seconds
  authType,           \* authConfig.type
  size,               \* audioBlob.size
  path,               \* the strategy taken: "none" | "sync" | "chunked" | "longrunning"
  outcome,            \* "none" | "resolved" | "rejected"
  noted,              \* the transcript carries the "Audio was ... long" note
  nRecognize,         \* speech:recognize requests issued for the whole payload
  nUpload,            \* object-storage uploads issued
  nSubmit,            \* speech:longrunningrecognize requests issued
  nPoll,              \* operation polls issued
  nChunkReq,          \* speech:recognize requests issued for chunks
  offset,             \* splitAudioIntoChunks: offset
  chunks,             \* splitAudioIntoChunks: chunks, as <<start, end>> byte ranges
  ci,                 \* transcribeChunkedAudio: i
  nChunkOk,           \* transcribeChunkedAudio: chunkResults.length
  \* transcribeChunkedAudio / combineChunkResults: the transcripts
  responses,          \* what each chunk request came back with, in chunk order
  chunkResults,       \* chunkResults: the chunk index and whether its transcript has text
  transcript,         \* the transcript transcribe resolved with ("none": not resolved)
  \* transcribeLongAudio
  tokenCached,        \* this.accessToken is set and this.tokenExpiry is in the future
  srvMode,            \* how the storage and speech servers answer this run
  doneAt,             \* the poll request at which the operation answers (done or non-2xx)
  attempts,           \* pollLongRunningOperation: attempts
  nDelete,            \* object deletions issued
  deleted,            \* how deleteFromGCS ended: "none" | "ok" | "failed" (caught and logged)
  terr,               \* the message of the error the path threw ("none": no error)
  \* combineChunkResults: the segments
  mpc,                \* "idle" | "ready" | "merged" | "threw"
  chunkSegments,      \* chunkResults: for every chunk its segments, as <<startTime, endTime>>
  merged,             \* combinedSegments
  \* AudioProcessingService.processAudio
  ppc,                \* position of processAudio, or "returned" / "rejected"
  pService,           \* speechService and nlService are set
  pOptions,           \* options.generateSummary, options.extractTasks
  pTranscript,        \* transcription.transcript
  pSummary,           \* summary: "none" | "local" | "collaborator" | "fallback"
  pOutcome,           \* the ProcessingResult processAudio resolved to
  pFault,             \* the step that failed ("none": no step failed)
  nGenerateSummary,   \* calls of nlService.generateSummary
  pProbe,             \* how extractAudioMetadata settled ("none": not yet)
  pNlThrew,           \* generateSummary threw
  pStages,            \* the stages started so far, in order
  \* GoogleSpeechToTextService.processResponse
  rpc,                \* "idle" | "ready" | "done"
  rCaller,            \* the method that hands the provider response to processResponse
  rData,              \* data.results: the top alternative of every result
  rResult             \* the transcript and the confidence of the TranscriptionResult

qvars == <<queue, status, trail, progress, error, isProcessing, processingService, sup,
           batch, loops, run, result, created, sessions, notified, observed, lastOp, cancelledAt>>
tvars == <<tpc, duration, authType, size, path, outcome, noted, nRecognize, nUpload,
           nSubmit, nPoll, nChunkReq, offset, chunks, ci, nChunkOk>>
kvars == <<responses, chunkResults, transcript>>
lvars == <<tokenCached, srvMode, doneAt, attempts, nDelete, deleted, terr>>
\* everything outside the queue
mvars == <<mpc, chunkSegments, merged>>
pvars == <<ppc, pService, pOptions, pTranscript, pSummary, pOutcome, pFault,
           nGenerateSummary, pProbe, pNlThrew, pStages>>
rvars == <<rpc, rCaller, rData, rResult>>
evars == <<tvars, kvars, lvars, mvars, pvars, rvars>>
vars == <<qvars, evars>>

\* ----------------------------------------------------------------- helpers
Range(s) == {s[i] : i \in 1..Len(s)}

Min(a, b) == IF a < b THEN a ELSE b

Op(name, id) ==
  IF name \in observed THEN [op |-> name, id |-> id] ELSE [op |-> "internal", id |-> 0]

\* =========================================================================
\* BackgroundProcessor (lib/utils.ts)
\* =========================================================================

\* The mutable objects one synchronous block works on.
Cur == [queue |-> queue, status |-> status, trail |-> trail, progress |-> progress, error |-> error,
        sessions |-> sessions, notified |-> notified, run |-> run, result |-> result]

Commit(S) ==
  /\ queue' = S.queue
  /\ status' = S.status
  /\ trail' = S.trail
  /\ progress' = S.progress
  /\ error' = S.error
  /\ sessions' = S.sessions
  /\ notified' = S.notified
  /\ run' = S.run
  /\ result' = S.result

\* addNotification payloads
FileProcessed(j) ==
  [type |-> "success", title |-> "File Processed", job |-> j, duration |-> 3000]
ProcessingFailed(j) ==
  [type |-> "error", title |-> "Processing Failed", job |-> j, duration |-> 0]
ProcessingComplete ==
  [type |-> "success", title |-> "Processing Complete", job |-> 0, duration |-> 5000]

\* this.queue.filter(q => q.id !== id)
removeItem(q, id) == SelectSeq(q, LAMBDA x : x # id)

\* item.status = v, in method by
setStatus(S, j, v, by) ==
  [S EXCEPT !.status[j] = v, !.trail[j] = Append(@, [to |-> v, by |-> by])]

\* the progress callback handed to processAudio
onProgress(S, j, p) ==
  [S EXCEPT !.progress[j] = p, !.sessions[j].progress = p]

\* mutant: the failure is recorded but the user is not notified
markItemFailedSilent(S, j, msg) ==
  [setStatus(S, j, "failed", "markItemFailed") EXCEPT
            !.error[j] = msg,
            !.sessions[j] = [status |-> "failed", progress |-> 0],
            !.queue = removeItem(@, j)]

\* mutant: the failed item stays in the queue
markItemFailedKeeps(S, j, msg) ==
  [setStatus(S, j, "failed", "markItemFailed") EXCEPT
            !.error[j] = msg,
            !.sessions[j] = [status |-> "failed", progress |-> 0],
            !.notified = Append(@, ProcessingFailed(j))]

markItemFailed(S, j, msg) ==
  [setStatus(S, j, "failed", "markItemFailed") EXCEPT
            !.error[j] = msg,
            !.sessions[j] = [status |-> "failed", progress |-> 0],
            !.notified = Append(@, ProcessingFailed(j)),
            !.queue = removeItem(@, j)]

\* mutant: the session is deleted with the item
markItemCompletedDropsSession(S, j) ==
  [setStatus(S, j, "completed", "processItem") EXCEPT
            !.sessions[j] = [status |-> "none", progress |-> 0],
            !.progress[j] = 100,
            !.notified = Append(@, FileProcessed(j)),
            !.queue = removeItem(@, j)]

\* mutant: the completed item stays in the queue
markItemCompletedKeeps(S, j) ==
  [setStatus(S, j, "completed", "processItem") EXCEPT
            !.sessions[j] = [status |-> "completed", progress |-> 100],
            !.progress[j] = 100,
            !.notified = Append(@, FileProcessed(j))]

\* processItem after a successful outcome that carries a transcription
markItemCompleted(S, j) ==
  [setStatus(S, j, "completed", "processItem") EXCEPT
            !.sessions[j] = [status |-> "completed", progress |-> 100],
            !.progress[j] = 100,
            !.notified = Append(@, FileProcessed(j)),
            !.queue = removeItem(@, j)]

\* mutant: the session is updated but the item is not marked
markProcessingSessionOnly(S, j) ==
  [S EXCEPT !.sessions[j] = [status |-> "transcribing", progress |-> 0]]

\* item.status = 'processing'; updateSession(transcribing, 0)
markProcessing(S, j) ==
  [setStatus(S, j, "processing", "processItem") EXCEPT
            !.sessions[j] = [status |-> "transcribing", progress |-> 0]]

\* the ProcessingResult as processItem reads it
NoResult == [success |-> FALSE, transcription |-> FALSE, error |-> "none"]
failureOutcome(msg) == [success |-> FALSE, transcription |-> FALSE, error |-> msg]
successOutcome == [success |-> TRUE, transcription |-> TRUE, error |-> "none"]

\* mutant: the outcome is not looked at
settleRunAlwaysCompleted(S, j, out) ==
  [markItemCompleted(S, j) EXCEPT !.result[j] = out, !.run[j] = "settled"]

\* processItem after await processAudio(...): completed when the outcome has
\* success and a transcription, else markItemFailed(result.error || 'Processing failed')
settleRun(S, j, out) ==
  [(IF out.success /\ out.transcription
      THEN markItemCompleted(S, j)
      ELSE markItemFailed(S, j, IF out.error \notin {"none", ""} THEN out.error
                                                                ELSE "Processing failed"))
     EXCEPT !.result[j] = out, !.run[j] = "settled"]

\* mutant: the probe is started whatever the credential
processAudioStartProbes(S, j) == [onProgress(S, j, 10) EXCEPT !.run[j] = "probe"]

\* processAudio up to its first suspension: without credential it throws inside
\* its own try and returns the failure outcome, else it reports 10 and probes.
processAudioStart(S, j) ==
  IF processingService = "nokey"
    THEN [onProgress(S, j, 0) EXCEPT !.run[j] = "nokey"]
    ELSE [onProgress(S, j, 10) EXCEPT !.run[j] = "probe"]

\* processItem up to its first await
processItemStart(S, j) ==
  IF processingService = "unset"
    THEN [markItemFailed(S, j, "Processing service not available")
            EXCEPT !.run[j] = "settled"]
    ELSE processAudioStart(markProcessing(S, j), j)

\* pendingItems.map(item => this.processItem(item))
RECURSIVE startAll(_, _)
startAll(S, items) ==
  IF items = <<>> THEN S
  ELSE startAll(processItemStart(S, Head(items)), Tail(items))

\* mutant: every pending item is taken (no slice)
pendingItemsUnsliced(q, st) == SelectSeq(q, LAMBDA x : st[x] = "pending")

\* mutant: the last pending items are taken
pendingItemsLast(q, st) ==
  LET p == SelectSeq(q, LAMBDA x : st[x] = "pending")
  IN SubSeq(p, Len(p) - Min(maxConcurrent, Len(p)) + 1, Len(p))

\* this.queue.filter(item => item.status === 'pending').slice(0, maxConcurrent)
pendingItems(q, st) ==
  LET p == SelectSeq(q, LAMBDA x : st[x] = "pending")
  IN SubSeq(p, 1, Min(maxConcurrent, Len(p)))

\* mutant: the supervisor does not wait for the batch
batchNotAwaited(B, r) == TRUE

\* mutant: the supervisor goes on as soon as one run of the batch has ended
batchAnySettled(B, r) == \E j \in B : r[j] = "settled"

\* await Promise.all(processingPromises) has resolved
batchSettled(B, r) == \A j \in B : r[j] = "settled"

\* mutant: the loop body runs once (an if in place of the while)
supervisorLoopOnce(S) ==
  LET items == pendingItems(S.queue, S.status) IN
  IF sup # "idle" \/ Len(S.queue) = 0
    THEN /\ Commit([S EXCEPT !.notified = Append(@, ProcessingComplete)])
         /\ isProcessing' = FALSE
         /\ sup' = "idle"
         /\ batch' = {}
    ELSE IF items = <<>>
      THEN /\ Commit(S)
           /\ isProcessing' = TRUE
           /\ sup' = "sleep"
           /\ batch' = {}
      ELSE /\ Commit(startAll(S, items))
           /\ isProcessing' = TRUE
           /\ sup' = "awaitBatch"
           /\ batch' = Range(items)

\* One pass of the while loop of startProcessing, from the loop test to the
\* next await or to the end of the method.
supervisorLoop(S) ==
  LET items == pendingItems(S.queue, S.status) IN
  IF Len(S.queue) = 0
    THEN /\ Commit([S EXCEPT !.notified = Append(@, ProcessingComplete)])
         /\ isProcessing' = FALSE
         /\ sup' = "idle"
         /\ batch' = {}
    ELSE IF items = <<>>
      THEN /\ Commit(S)
           /\ isProcessing' = TRUE
           /\ sup' = "sleep"
           /\ batch' = {}
      ELSE /\ Commit(startAll(S, items))
           /\ isProcessing' = TRUE
           /\ sup' = "awaitBatch"
           /\ batch' = Range(items)

startProcessing(S) ==
  IF isProcessing \/ Len(S.queue) = 0
    THEN Commit(S) /\ UNCHANGED <<isProcessing, sup, batch, loops>>
    ELSE supervisorLoop(S) /\ loops' = loops + 1

\* mutant: the supervisor is never started
startNever(S) == Commit(S) /\ UNCHANGED <<isProcessing, sup, batch, loops>>

\* if (!this.isProcessing) this.startProcessing()
startIfIdle(S) ==
  IF ~isProcessing
    THEN startProcessing(S)
    ELSE Commit(S) /\ UNCHANGED <<isProcessing, sup, batch, loops>>

\* the items addToQueue creates for n files
newItems(n) == [i \in 1..n |-> created + i]

enqueue(S, n) ==
  LET new == Range(newItems(n)) IN
  [S EXCEPT !.queue = @ \o newItems(n),
            !.status = [j \in Jobs |-> IF j \in new THEN "pending" ELSE @[j]],
            !.trail = [j \in Jobs |-> IF j \in new
                                       THEN <<[to |-> "pending", by |-> "addToQueue"]>>
                                       ELSE @[j]],
            !.progress = [j \in Jobs |-> IF j \in new THEN 0 ELSE @[j]],
            !.sessions = [j \in Jobs |-> IF j \in new
                                          THEN [status |-> "pending", progress |-> 0]
                                          ELSE @[j]]]

SetProcessingService(k) ==
  /\ processingService' = k
  /\ lastOp' = Op("setProcessingService", 0)
  /\ UNCHANGED <<queue, status, trail, progress, error, isProcessing, sup, batch, loops, run,
                 result, created, sessions, notified, cancelledAt, observed>>

AddToQueue(n) ==
  /\ created' = created + n
  /\ startIfIdle(enqueue(Cur, n))
  /\ lastOp' = Op("addToQueue", 0)
  /\ UNCHANGED <<processingService, cancelledAt, observed>>

\* getQueueStatus: the counts over this.queue
countStatus(q, st, v) == Len(SelectSeq(q, LAMBDA x : st[x] = v))

getQueueStatus(q, st) ==
  [total |-> Len(q),
   pending |-> countStatus(q, st, "pending"),
   processing |-> countStatus(q, st, "processing"),
   completed |-> countStatus(q, st, "completed"),
   failed |-> countStatus(q, st, "failed")]

\* mutant: the filter keeps the item
cancelFilterKeeps(q, id) == q

\* this.queue.filter(q => q.id !== itemId)
cancelFilter(q, id) == SelectSeq(q, LAMBDA x : x # id)

CancelItem(j) ==
  /\ queue' = cancelFilter(queue, j)
  /\ cancelledAt' =
       IF j \in Range(queue) /\ cancelledAt[j] = "none"
         THEN [cancelledAt EXCEPT ![j] = status[j]]
         ELSE cancelledAt
  /\ lastOp' = Op("cancelItem", j)
  /\ UNCHANGED <<status, trail, progress, error, isProcessing, processingService, sup, result,
                 batch, loops, run, created, sessions, notified, observed>>

\* mutant: the filter drops the pending items instead
clearFilterPending(q, st) == SelectSeq(q, LAMBDA x : st[x] # "pending")

\* this.queue.filter(item => item.status !== 'completed')
clearFilter(q, st) == SelectSeq(q, LAMBDA x : st[x] # "completed")

ClearCompleted ==
  /\ queue' = clearFilter(queue, status)
  /\ lastOp' = Op("clearCompleted", 0)
  /\ UNCHANGED <<status, trail, progress, error, isProcessing, processingService, sup, result,
                 batch, loops, run, created, sessions, notified, cancelledAt, observed>>

RetryFailedItem(j) ==
  /\ IF j \in Range(queue) /\ status[j] = "failed"
       THEN startIfIdle([setStatus(Cur, j, "pending", "retryFailedItem") EXCEPT
                                    !.error[j] = "none",
                                    !.progress[j] = 0])
       ELSE UNCHANGED <<queue, status, trail, progress, error, sessions, notified, run, result,
                        isProcessing, sup, batch, loops>>
  /\ lastOp' = Op("retryFailedItem", j)
  /\ UNCHANGED <<processingService, created, cancelledAt, observed>>

\* The supervisor resumes after await Promise.all(...) or after the 1 s timer.
SupervisorResume ==
  /\ sup # "idle"
  /\ sup = "awaitBatch" => batchSettled(batch, run)
  /\ supervisorLoop(Cur)
  /\ loops' = IF Len(queue) = 0 THEN loops - 1 ELSE loops
  /\ lastOp' = Op("internal", 0)
  /\ UNCHANGED <<processingService, created, cancelledAt, observed>>

RunFrame ==
  /\ lastOp' = Op("internal", 0)
  /\ UNCHANGED <<isProcessing, processingService, sup, batch, loops, created, cancelledAt,
                 observed>>

\* processAudio returned the failure outcome at once (no credential):
\* processItem resumes and marks the item failed with result.error.
SettleNoKey(j) ==
  /\ run[j] = "nokey"
  /\ Commit(settleRun(Cur, j, failureOutcome("Google API key not configured")))
  /\ RunFrame

\* extractAudioMetadata settles; on success the 10 ms yield, 20, 30 and the
\* call of transcribe follow; on rejection the catch of processAudio reports 0
\* and processItem marks the item failed.
ProbeDone(j, ok) ==
  /\ run[j] = "probe"
  /\ IF ok
       THEN Commit([onProgress(onProgress(Cur, j, 20), j, 30)
                      EXCEPT !.run[j] = "transcribe"])
       ELSE Commit(settleRun(onProgress(Cur, j, 0), j,
                             failureOutcome("Failed to load audio metadata")))
  /\ RunFrame

\* transcribe settles: "fail" (it threw), "long" (a transcript of at least 10
\* words: the summarization collaborator is called), "short" (a shorter
\* transcript: local summary, the outcome is returned).
TranscribeDone(j, res) ==
  /\ run[j] = "transcribe"
  /\ CASE res = "fail" ->
            Commit(settleRun(onProgress(Cur, j, 0), j,
                             failureOutcome("Transcription failed")))
       [] res = "long" ->
            Commit([onProgress(onProgress(Cur, j, 60), j, 70)
                      EXCEPT !.run[j] = "summarize"])
       [] res = "short" ->
            Commit(settleRun(
                      onProgress(onProgress(onProgress(Cur, j, 60), j, 85), j, 100), j,
                      successOutcome))
  /\ RunFrame

\* generateSummary settles (a failure is replaced by the fallback summary)
SummaryDone(j) ==
  /\ run[j] = "summarize"
  /\ Commit(settleRun(onProgress(onProgress(Cur, j, 85), j, 100), j, successOutcome))
  /\ RunFrame

QInit(obs) ==
  /\ observed = obs
  /\ queue = <<>>
  /\ status = [j \in Jobs |-> "none"]
  /\ trail = [j \in Jobs |-> <<>>]
  /\ progress = [j \in Jobs |-> 0]
  /\ error = [j \in Jobs |-> "none"]
  /\ isProcessing = FALSE
  /\ processingService = "unset"
  /\ sup = "idle"
  /\ batch = {}
  /\ loops = 0
  /\ run = [j \in Jobs |-> "none"]
  /\ result = [j \in Jobs |-> NoResult]
  /\ created = 0
  /\ sessions = [j \in Jobs |-> [status |-> "none", progress |-> 0]]
  /\ notified = <<>>
  /\ lastOp = [op |-> "internal", id |-> 0]
  /\ cancelledAt = [j \in Jobs |-> "none"]

TIdle ==
  /\ tpc = "idle" /\ duration = 0 /\ authType = "api_key" /\ size = 0
  /\ path = "none" /\ outcome = "none" /\ noted = FALSE
  /\ nRecognize = 0 /\ nUpload = 0 /\ nSubmit = 0 /\ nPoll = 0 /\ nChunkReq = 0
  /\ offset = 0 /\ chunks = <<>> /\ ci = 0 /\ nChunkOk = 0
  /\ responses = <<>> /\ chunkResults = <<>> /\ transcript = [marker |-> -1, body |-> <<>>]
  /\ tokenCached = FALSE /\ srvMode = "ok" /\ doneAt = 1
  /\ attempts = 0 /\ nDelete = 0 /\ deleted = "none" /\ terr = "none"

MIdle == mpc = "idle" /\ chunkSegments = <<>> /\ merged = <<>>

NoOutcome == [success |-> FALSE, error |-> "none", time |-> FALSE, summary |-> "none",
              transcription |-> FALSE]
NoText == [kind |-> "none", words |-> 0]

NoNormalized == [transcript |-> <<>>, confidence |-> [num |-> 0, den |-> 1]]

RIdle ==
  /\ rpc = "idle" /\ rCaller = "none" /\ rData = <<>> /\ rResult = NoNormalized

PIdle ==
  /\ ppc = "idle" /\ pService = FALSE
  /\ pOptions = [generateSummary |-> TRUE, extractTasks |-> FALSE]
  /\ pTranscript = NoText /\ pSummary = "none" /\ pOutcome = NoOutcome
  /\ pFault = "none" /\ nGenerateSummary = 0
  /\ pProbe = "none" /\ pNlThrew = FALSE /\ pStages = <<>>

Init == QInit({}) /\ TIdle /\ MIdle /\ PIdle /\ RIdle

Next ==
  \/ \E k \in {"nokey", "keyed"} : SetProcessingService(k) /\ UNCHANGED evars
  \/ \E n \in 0..(MaxJobs - created) : AddToQueue(n) /\ UNCHANGED evars
  \/ \E j \in 1..created : CancelItem(j) /\ UNCHANGED evars
  \/ ClearCompleted /\ UNCHANGED evars
  \/ \E j \in 1..created : RetryFailedItem(j) /\ UNCHANGED evars
  \/ SupervisorResume /\ UNCHANGED evars
  \/ \E j \in Jobs : SettleNoKey(j) /\ UNCHANGED evars
  \/ \E j \in Jobs, ok \in BOOLEAN : ProbeDone(j, ok) /\ UNCHANGED evars
  \/ \E j \in Jobs, res \in {"fail", "long", "short"} : TranscribeDone(j, res) /\ UNCHANGED evars
  \/ \E j \in Jobs : SummaryDone(j) /\ UNCHANGED evars

Spec == Init /\ [][Next]_vars

\* the same program, with the calls of clearCompleted recorded in lastOp
InitClear == QInit({"clearCompleted"}) /\ TIdle /\ MIdle /\ PIdle /\ RIdle
SpecClear == InitClear /\ [][Next]_vars

\* the same program, with the calls of retryFailedItem recorded in lastOp
InitRetry == QInit({"retryFailedItem"}) /\ TIdle /\ MIdle /\ PIdle /\ RIdle
SpecRetry == InitRetry /\ [][Next]_vars

\* The event loop runs a continuation whenever one is ready (every
\* orchestrator run terminates, the supervisor is resumed): some internal
\* step is taken as long as one is enabled.
RunStep(j) ==
  \/ SettleNoKey(j) /\ UNCHANGED evars
  \/ \E ok \in BOOLEAN : ProbeDone(j, ok) /\ UNCHANGED evars
  \/ \E res \in {"fail", "long", "short"} : TranscribeDone(j, res) /\ UNCHANGED evars
  \/ SummaryDone(j) /\ UNCHANGED evars

InternalStep ==
  \/ SupervisorResume /\ UNCHANGED evars
  \/ \E j \in Jobs : RunStep(j)

FairSpec == Spec /\ WF_vars(InternalStep)

\* =========================================================================
\* Properties of the queue
\* =========================================================================
Finished == {"completed", "failed"}
InFlight == {"nokey", "probe", "transcribe", "summarize"}
NotesOf(j) == SelectSeq(notified, LAMBDA n : n.job = j)
IsAllDone(n) == n.title = "Processing Complete"

\* C1: in every reachable state the number of jobs whose status is Processing
\* is at most maxConcurrent, whatever the enqueue pattern.
C1_ProcessingBounded ==
  Cardinality({j \in Jobs : status[j] = "processing"}) <= maxConcurrent

C1_Witness ==
  /\ Cardinality({j \in Jobs : status[j] = "processing"}) = maxConcurrent
  /\ \E j \in Range(queue) : status[j] = "pending"

\* C2: every job that is enqueued and not cancelled eventually reaches
\* Completed or Failed, also when it was enqueued while other jobs ran: again
\* and again every job created so far is Completed, Failed or cancelled
\* (none of the three is ever undone).
C2_EventuallyFinished ==
  []<>(\A j \in Jobs :
         status[j] \in {"pending", "processing"} => cancelledAt[j] # "none")

\* three jobs finished in one drain (more than one batch), none cancelled
C2_Witness ==
  /\ \A j \in 1..3 : status[j] \in Finished /\ cancelledAt[j] = "none"
  /\ \E j \in 1..3 : status[j] = "completed"
  /\ Len(SelectSeq(notified, IsAllDone)) = 1

Lifecycle ==
  {<<"pending", "processing">>, <<"processing", "completed">>,
   <<"processing", "failed">>}

\* the i-th status change of item j: the values before and after
Change(j, i) == <<trail[j][i].to, trail[j][i + 1].to>>

\* C3 (as stated): every status change of a job is Pending->Processing,
\* Processing->Completed, Processing->Failed, or Failed->Pending made by
\* retryFailedItem, also when no processing service has been set.
C3_LifecycleOnly ==
  \A j \in Jobs : \A i \in 1..(Len(trail[j]) - 1) :
    \/ Change(j, i) \in Lifecycle
    \/ Change(j, i) = <<"failed", "pending">> /\ trail[j][i + 1].by = "retryFailedItem"

\* C3 (amended): the same, with Pending->Failed added for a job that the
\* supervisor started while no processing service was set, and only for it.
C3_LifecycleOrNoService ==
  \A j \in Jobs : \A i \in 1..(Len(trail[j]) - 1) :
    \/ Change(j, i) \in Lifecycle
    \/ Change(j, i) = <<"failed", "pending">> /\ trail[j][i + 1].by = "retryFailedItem"
    \/ Change(j, i) = <<"pending", "failed">>
         /\ error[j] = "Processing service not available"

\* one job failed straight from Pending, another went through Processing
C3_Witness ==
  \E j, k \in Jobs :
    /\ Len(trail[j]) = 2 /\ Change(j, 1) = <<"pending", "failed">>
    /\ Len(trail[k]) = 3 /\ Change(k, 1) = <<"pending", "processing">>
    /\ Change(k, 2) = <<"processing", "completed">>

\* C4: retryFailedItem on a failed job makes it Pending again with the error
\* cleared and the progress reset (or already running again, when the
\* supervisor was idle and started it in the same call), back in the queue.
C4_RetryRequeues ==
  [][\A j \in Jobs :
       (lastOp' = [op |-> "retryFailedItem", id |-> j] /\ lastOp' # lastOp
          /\ status[j] = "failed") =>
         /\ status'[j] \in {"pending", "processing"}
         /\ error'[j] = "none"
         /\ status'[j] = "pending" => progress'[j] = 0 /\ j \in Range(queue')]_vars

\* C5: a job cancelled while Pending is out of the queue for good and its
\* run is never started.
C5_CancelledPendingNeverRuns ==
  \A j \in Jobs :
    cancelledAt[j] = "pending" =>
      /\ j \notin Range(queue)
      /\ status[j] = "pending"
      /\ run[j] = "none"

\* a job was cancelled while Pending and the supervisor has since drained
C5_Witness ==
  \E j \in Jobs : cancelledAt[j] = "pending" /\ ~isProcessing

\* C6: the result of a run whose job was cancelled while Processing is
\* discarded: the session is not updated to a final status and no per-job
\* notification is published.
C6_CancelledRunDiscarded ==
  \A j \in Jobs :
    cancelledAt[j] = "processing" =>
      /\ NotesOf(j) = <<>>
      /\ sessions[j].status = "transcribing"

\* C7: a started job has no per-job notification while it runs and exactly
\* one when its run has ended: a success for Completed, a persistent
\* (duration 0) error for Failed.
C7_OneNotificationPerRun ==
  \A j \in Jobs :
    /\ run[j] \in InFlight \cup {"none"} => NotesOf(j) = <<>>
    /\ run[j] = "settled" =>
         /\ Len(NotesOf(j)) = 1
         /\ status[j] \in Finished
         /\ status[j] = "completed" => NotesOf(j)[1].type = "success"
         /\ status[j] = "failed" =>
              NotesOf(j)[1].type = "error" /\ NotesOf(j)[1].duration = 0

C7_Witness ==
  \E j, k \in Jobs :
    /\ run[j] = "settled" /\ status[j] = "completed"
    /\ run[k] = "settled" /\ status[k] = "failed"

\* C8: every aggregate notification closes a drain: it follows at least one
\* per-job notification, never another aggregate one, no run is in flight
\* when the supervisor is idle, and an idle supervisor has closed all
\* per-job notifications with an aggregate one.
C8_OneAggregatePerDrain ==
  /\ \A i \in 1..Len(notified) :
       IsAllDone(notified[i]) => i > 1 /\ ~IsAllDone(notified[i - 1])
  /\ ~isProcessing =>
       /\ \A j \in Jobs : run[j] \notin InFlight
       /\ notified # <<>> => IsAllDone(notified[Len(notified)])

\* one drain of three jobs (the third waited for a slot): three per-job
\* notifications, then the aggregate one
C8_Witness ==
  /\ Len(notified) = 4
  /\ IsAllDone(notified[4])
  /\ \A i \in 1..3 : ~IsAllDone(notified[i])

\* C9: a call of clearCompleted removes exactly the Completed jobs from the
\* queue, keeps the others in their order, and changes no status, progress
\* or error.
C9_ClearFrame ==
  [][lastOp'.op = "clearCompleted" =>
       /\ queue' = SelectSeq(queue, LAMBDA x : status[x] # "completed")
       /\ status' = status
       /\ progress' = progress
       /\ error' = error]_vars

\* clearCompleted was called on a queue holding a Pending and a Processing job
C9_Witness ==
  /\ lastOp.op = "clearCompleted"
  /\ \E j, k \in Range(queue) : status[j] = "pending" /\ status[k] = "processing"


\* C22: a job started while no credential is configured fails without a
\* metadata probe or a request: with no orchestrator set it is failed at once
\* with 'Processing service not available'; with an orchestrator that has no
\* key the run goes from its start straight to the failure, and the error on
\* the job is 'Google API key not configured', unchanged.
C22_ConfigErrorFailsFast ==
  [][\A j \in Jobs :
       /\ (run[j] = "none" /\ run'[j] # "none" /\ processingService = "unset") =>
            /\ run'[j] = "settled" /\ status'[j] = "failed"
            /\ error'[j] = "Processing service not available"
       /\ (run[j] = "none" /\ run'[j] # "none" /\ processingService = "nokey") =>
            run'[j] = "nokey"
       /\ (run[j] = "nokey" /\ run'[j] # "nokey") =>
            /\ run'[j] = "settled" /\ status'[j] = "failed"
            /\ error'[j] = "Google API key not configured"]_vars

\* one job failed for each of the two configuration errors
C22_Witness ==
  \E j, k \in Jobs :
    /\ status[j] = "failed" /\ error[j] = "Processing service not available"
    /\ status[k] = "failed" /\ error[k] = "Google API key not configured"

\* C23: while a job is Processing, every step leaves its progress within
\* 0..100 and not below its previous value, up to and including the step
\* that ends the run.
C23_ProgressMonotone ==
  [][\A j \in Jobs :
       status[j] = "processing" =>
         progress'[j] \in 0..100 /\ progress'[j] >= progress[j]]_vars

\* C26: when the run of a job has ended, the job is Completed exactly if the
\* outcome had success and a transcription, and otherwise Failed with an
\* error message; a job is Processing only while its run is in flight.
C26_CompletedIffSuccess ==
  \A j \in Jobs :
    /\ run[j] = "settled" =>
         /\ status[j] \in Finished
         /\ status[j] = "completed" <=> (result[j].success /\ result[j].transcription)
         /\ status[j] = "failed" => error[j] \notin {"none", ""}
    /\ status[j] = "processing" => run[j] \in InFlight

\* one run ended with a success outcome, another with a failure outcome
C26_Witness ==
  \E j, k \in Jobs :
    /\ run[j] = "settled" /\ result[j].success /\ status[j] = "completed"
    /\ run[k] = "settled" /\ result[k] = failureOutcome("Transcription failed")
    /\ status[k] = "failed"

\* C27: a job becomes Processing (from Pending, or in the very step that
\* enqueued it) only in a step after which no job enqueued before it is still
\* Pending in the queue.
C27_AdmissionOrder ==
  [][\A j \in Jobs :
       (status[j] # "processing" /\ status'[j] = "processing") =>
         \A k \in 1..(j - 1) :
           ~(k \in Range(queue') /\ status'[k] = "pending")]_vars

\* three files enqueued at once: the first two are started, the third waits
C27_Witness ==
  /\ queue = <<1, 2, 3>>
  /\ status = <<"processing", "processing", "pending">>
  /\ Len(trail[1]) = 2 /\ Len(trail[2]) = 2 /\ Len(trail[3]) = 1

\* C34: a session, once created, exists in every later state; a job that has
\* left the queue (completed, failed or cancelled) still has its session; and
\* a step that only removes jobs from the queue (cancelItem, clearCompleted)
\* changes no session.
C34_SessionOutlivesJob ==
  [][/\ \A j \in Jobs : sessions[j].status # "none" => sessions'[j].status # "none"
     /\ \A j \in Jobs : (status'[j] # "none" /\ j \notin Range(queue'))
                            => sessions'[j].status # "none"
     /\ (Len(queue') < Len(queue) /\ status' = status) => sessions' = sessions]_vars

\* one job was cancelled, another completed: both have left the queue and
\* both sessions are in the store
C34_Witness ==
  \E j, k \in Jobs :
    /\ cancelledAt[j] # "none" /\ j \notin Range(queue)
    /\ sessions[j].status # "none"
    /\ status[k] = "completed" /\ k \notin Range(queue)
    /\ sessions[k].status = "completed"

\* C35: the wait branch of the supervisor loop is never taken: whenever the
\* loop is about to examine a non-empty queue (its batch has settled), every
\* job in the queue is Pending, so there is at least one.
C35_NeverSleeps ==
  /\ sup # "sleep"
  /\ (sup = "awaitBatch" /\ (\A j \in batch : run[j] = "settled") /\ queue # <<>>) =>
       \A j \in Range(queue) : status[j] = "pending"

\* the batch of job 1 has settled and job 2, enqueued meanwhile, is in the queue
C35_Witness ==
  /\ sup = "awaitBatch" /\ batch = {1} /\ run[1] = "settled"
  /\ queue = <<2>> /\ status[2] = "pending"

\* C36: between steps every job in the queue is Pending or Processing, and
\* getQueueStatus reports completed = 0 and failed = 0.
C36_QueueHoldsOnlyLive ==
  /\ \A j \in Range(queue) : status[j] \in {"pending", "processing"}
  /\ getQueueStatus(queue, status).completed = 0
  /\ getQueueStatus(queue, status).failed = 0
  /\ getQueueStatus(queue, status).total
       = getQueueStatus(queue, status).pending + getQueueStatus(queue, status).processing

\* a failed job and a completed job have left the queue, a third is still in it
C36_Witness ==
  \E j, k \in Jobs :
    /\ status[j] = "failed" /\ j \notin Range(queue)
    /\ status[k] = "completed" /\ k \notin Range(queue)
    /\ queue # <<>>

\* C37: a job becomes Processing only in a step before which no orchestrator
\* run is in flight (the runs of cancelled jobs included), and at most
\* maxConcurrent runs are in flight.
C37_BatchBarrier ==
  [][/\ \A j \in Jobs :
          (status[j] # "processing" /\ status'[j] = "processing") =>
            \A k \in Jobs : run[k] \notin InFlight
     /\ Cardinality({k \in Jobs : run'[k] \in InFlight}) <= maxConcurrent]_vars

\* job 2 waits although the only run in flight is that of job 1, which was
\* cancelled meanwhile
C37_Witness ==
  /\ status[2] = "pending" /\ queue = <<2>>
  /\ run[1] \in InFlight /\ cancelledAt[1] = "processing"
  /\ batch = {1} /\ sup = "awaitBatch"

\* C38: the queue is empty whenever isProcessing is false, at most one call
\* of startProcessing is inside the loop, isProcessing is true exactly while
\* one is, and a Pending job in the queue has a running supervisor.
C38_OneSupervisor ==
  /\ ~isProcessing => queue = <<>>
  /\ loops \in {0, 1}
  /\ isProcessing <=> loops = 1
  /\ (\E j \in Range(queue) : status[j] = "pending") => (loops = 1 /\ sup # "idle")

\* two supervisor loops have run one after the other and both have ended
C38_Witness ==
  /\ ~isProcessing /\ loops = 0 /\ queue = <<>>
  /\ Len(SelectSeq(notified, IsAllDone)) = 2


\* =========================================================================
\* GoogleSpeechToTextService.transcribe (lib/google-speech.ts)
\* =========================================================================
Durations == {0, 30, 58, 59, 60, 61, 120, 300}
Sizes == {0, 1, 7, 600}
AuthTypes == {"api_key", "service_account"}
SrvModes == {"ok", "uploadFails", "submitFails", "opError", "pollFails", "neverDone"}
maxAttempts == 120      \* pollLongRunningOperation: maxAttempts
DoneAts == {1, 2, maxAttempts}

\* error messages of the submit-and-poll path
AuthMsg == "Service Account authentication requires a backend service"
NeedsServiceAccountMsg == "Long audio transcription requires Service Account authentication"
UploadFailedMsg == "Failed to upload to GCS"
SubmitFailedMsg == "Long-running recognition failed"
PollFailedMsg == "Failed to poll operation"
OperationFailedMsg == "Operation failed"
TimedOutMsg == "Transcription timed out after 10 minutes"

NoTranscript == [marker |-> -1, body |-> <<>>]

CeilDiv(a, b) == (a + b - 1) \div b

\* getAccessToken: the key for api_key; for service_account the cached token
\* while it is valid, else createJWT calls signJWT, and signJWT always throws
\* (so the cache is never filled).
accessToken(auth, cached) ==
  IF auth = "api_key" THEN "key"
  ELSE IF cached THEN "token" ELSE "throws"

\* blobToBase64 rejects when the data URL carries no base64 text
base64Fails(sz) == sz = 0

Settle(res) == tpc' = "done" /\ outcome' = res

Throw(msg) == Settle("rejected") /\ terr' = msg

\* mutant: the credential type is not looked at
strategyByDurationOnly(d, auth) ==
  IF d > SyncLimit THEN "chunked" ELSE "sync"

\* transcribe: the strategy for a duration and a credential type
strategy(d, auth) ==
  IF d > SyncLimit
    THEN IF auth = "service_account" THEN "longrunning" ELSE "chunked"
    ELSE "sync"

\* transcribe after getAudioDuration: the choice of the strategy
T_Dispatch ==
  /\ tpc = "probe"
  /\ path' = strategy(duration, authType)
  /\ tpc' = CASE path' = "longrunning" -> "upload"
              [] path' = "chunked" -> "split"
              [] path' = "sync" -> "encode"
  /\ UNCHANGED <<duration, authType, size, outcome, noted, nRecognize, nUpload,
                 nSubmit, nPoll, nChunkReq, offset, chunks, ci, nChunkOk>>
  /\ UNCHANGED <<kvars, lvars>>

\* the synchronous path from blobToBase64 to the fetch of speech:recognize
T_Encoded ==
  /\ tpc = "encode"
  /\ IF base64Fails(size) \/ accessToken(authType, tokenCached) = "throws"
       THEN Settle("rejected") /\ UNCHANGED nRecognize
       ELSE tpc' = "recognize" /\ nRecognize' = nRecognize + 1 /\ UNCHANGED outcome
  /\ UNCHANGED <<duration, authType, size, path, noted, nUpload, nSubmit, nPoll,
                 nChunkReq, offset, chunks, ci, nChunkOk>>
  /\ UNCHANGED <<kvars, lvars>>

\* the response of speech:recognize: processResponse and the note, or the throw
T_Recognized(ok) ==
  /\ tpc = "recognize"
  /\ IF ok
       THEN Settle("resolved") /\ noted' = (duration > NoteLimit)
       ELSE Settle("rejected") /\ UNCHANGED noted
  /\ UNCHANGED <<duration, authType, size, path, nRecognize, nUpload, nSubmit, nPoll,
                 nChunkReq, offset, chunks, ci, nChunkOk>>
  /\ UNCHANGED <<kvars, lvars>>

\* ---------------------------------------------------- transcribeLongAudio
LongFrame ==
  /\ UNCHANGED <<duration, authType, size, path, noted, nRecognize, nChunkReq, offset,
                 chunks, ci, nChunkOk>>
  /\ UNCHANGED <<kvars, tokenCached, srvMode, doneAt>>

\* transcribeLongAudio up to the upload request of uploadToGCS
T_LongUpload ==
  /\ tpc = "upload"
  /\ IF accessToken(authType, tokenCached) = "throws"
       THEN Throw(AuthMsg) /\ UNCHANGED nUpload
       ELSE IF authType # "service_account"
         THEN Throw(NeedsServiceAccountMsg) /\ UNCHANGED nUpload
         ELSE tpc' = "uploading" /\ nUpload' = nUpload + 1 /\ UNCHANGED <<outcome, terr>>
  /\ UNCHANGED <<nSubmit, nPoll, attempts, nDelete, deleted>>
  /\ LongFrame

\* the upload response; then startLongRunningRecognize up to its fetch
T_Uploaded ==
  /\ tpc = "uploading"
  /\ IF srvMode = "uploadFails"
       THEN Throw(UploadFailedMsg) /\ UNCHANGED nSubmit
       ELSE IF accessToken(authType, tokenCached) = "throws"
         THEN Throw(AuthMsg) /\ UNCHANGED nSubmit
         ELSE tpc' = "submitting" /\ nSubmit' = nSubmit + 1 /\ UNCHANGED <<outcome, terr>>
  /\ UNCHANGED <<nUpload, nPoll, attempts, nDelete, deleted>>
  /\ LongFrame

\* mutant: the loop has no attempt ceiling
pollAlways(a) == TRUE

\* pollLongRunningOperation: while (attempts < maxAttempts)
pollAgain(a) == a < maxAttempts

\* the submit response; then pollLongRunningOperation up to its first fetch
T_Submitted ==
  /\ tpc = "submitting"
  /\ IF srvMode = "submitFails"
       THEN Throw(SubmitFailedMsg) /\ UNCHANGED <<nPoll, attempts>>
       ELSE IF accessToken(authType, tokenCached) = "throws"
         THEN Throw(AuthMsg) /\ UNCHANGED <<nPoll, attempts>>
         ELSE /\ attempts' = 0
              /\ IF pollAgain(attempts')
                   THEN tpc' = "polling" /\ nPoll' = nPoll + 1 /\ UNCHANGED <<outcome, terr>>
                   ELSE Throw(TimedOutMsg) /\ UNCHANGED nPoll
  /\ UNCHANGED <<nUpload, nSubmit, nDelete, deleted>>
  /\ LongFrame

\* One poll response: non-2xx throws; done with an error throws; done returns
\* operation.response and deleteFromGCS issues its request (when getAccessToken
\* throws there, the catch of deleteFromGCS logs it); otherwise 5 s later
\* attempts++ and the loop test.
T_Polled ==
  /\ tpc = "polling"
  /\ deleted' = IF nPoll = doneAt /\ srvMode = "ok"
                     /\ accessToken(authType, tokenCached) = "throws"
                  THEN "failed" ELSE deleted
  /\ IF nPoll = doneAt /\ srvMode = "pollFails"
       THEN Throw(PollFailedMsg) /\ UNCHANGED <<nPoll, attempts, nDelete>>
       ELSE IF nPoll = doneAt /\ srvMode = "opError"
         THEN Throw(OperationFailedMsg) /\ UNCHANGED <<nPoll, attempts, nDelete>>
         ELSE IF nPoll = doneAt /\ srvMode = "ok"
           THEN IF accessToken(authType, tokenCached) = "throws"
                  THEN Settle("resolved") /\ UNCHANGED <<nPoll, attempts, nDelete, terr>>
                  ELSE /\ tpc' = "deleting"
                       /\ nDelete' = nDelete + 1
                       /\ UNCHANGED <<nPoll, attempts, outcome, terr>>
           ELSE /\ attempts' = attempts + 1
                /\ UNCHANGED nDelete
                /\ IF pollAgain(attempts')
                     THEN tpc' = "polling" /\ nPoll' = nPoll + 1 /\ UNCHANGED <<outcome, terr>>
                     ELSE Throw(TimedOutMsg) /\ UNCHANGED nPoll
  /\ UNCHANGED <<nUpload, nSubmit>>
  /\ LongFrame

\* mutant: a failed deletion fails the run
afterDeleteEscalates(ok) == IF ok THEN "resolved" ELSE "rejected"

\* deleteFromGCS catches and logs whatever its body throws: transcribeLongAudio
\* goes on to processLongRunningResponse and returns
afterDelete(ok) == "resolved"

\* the DELETE settles (a failure is swallowed); processLongRunningResponse
T_Deleted(ok) ==
  /\ tpc = "deleting"
  /\ Settle(afterDelete(ok))
  /\ deleted' = IF ok THEN "ok" ELSE "failed"
  /\ UNCHANGED <<nUpload, nSubmit, nPoll, attempts, nDelete, terr>>
  /\ LongFrame

\* ------------------------------------------------- transcribeChunkedAudio
\* mutant: the chunk is as long as the step
chunkSizeStep == (size * (ChunkSeconds - OverlapSeconds)) \div duration

chunkSize == (size * ChunkSeconds) \div duration

\* mutant: the overlap is taken twice
overlapSizeDouble == (size * 2 * OverlapSeconds) \div duration

overlapSize == (size * OverlapSeconds) \div duration

\* mutant: a failed chunk leaves a result too
pushChunkResultAlways(results, i, res) ==
  Append(results, [chunk |-> i, text |-> (res = "text")])

\* chunkResults.push(chunkResult), skipped when transcribeShortAudio threw
pushChunkResult(results, i, res) ==
  IF res = "fail" THEN results
  ELSE Append(results, [chunk |-> i, text |-> (res = "text")])

\* mutant: the marker counts the results that have text
combinedTranscriptCountsText(results) ==
  LET withText == SelectSeq(results, LAMBDA r : r.text)
  IN [marker |-> Len(withText),
      body |-> [k \in 1..Len(withText) |-> withText[k].chunk]]

\* combineChunkResults: the marker with chunkResults.length, and the
\* transcripts that have text, joined in the order of chunkResults
combinedTranscript(results) ==
  LET withText == SelectSeq(results, LAMBDA r : r.text)
  IN [marker |-> Len(results),
      body |-> [k \in 1..Len(withText) |-> withText[k].chunk]]

\* mutant: the loop stops a chunk too early
stopSplitEarly(next) == next >= size - chunkSize

\* if (offset >= audioBlob.size - overlapSize) break
stopSplit(next) == next >= size - overlapSize

\* one pass of the while loop of splitAudioIntoChunks; when the loop ends
\* transcribeChunkedAudio goes on (with no chunk, combineChunkResults throws)
T_SplitStep ==
  /\ tpc = "split"
  /\ IF offset < size
       THEN LET end == Min(offset + chunkSize, size)
                next == offset + chunkSize - overlapSize
            IN /\ chunks' = IF end - offset > 0 THEN Append(chunks, <<offset, end>>)
                                                 ELSE chunks
               /\ offset' = next
               /\ IF stopSplit(next)
                    THEN IF chunks' = <<>> THEN Settle("rejected")
                                           ELSE tpc' = "chunks" /\ UNCHANGED outcome
                    ELSE UNCHANGED <<tpc, outcome>>
       ELSE /\ UNCHANGED <<chunks, offset>>
            /\ IF chunks = <<>> THEN Settle("rejected")
                                ELSE tpc' = "chunks" /\ UNCHANGED outcome
  /\ UNCHANGED <<duration, authType, size, path, noted, nRecognize, nUpload, nSubmit,
                 nPoll, nChunkReq, ci, nChunkOk>>
  /\ UNCHANGED <<kvars, lvars>>

\* transcribeShortAudio(chunks[i]) up to its fetch
T_ChunkRequest ==
  /\ tpc = "chunks"
  /\ tpc' = "chunkwait"
  /\ nChunkReq' = nChunkReq + 1
  /\ UNCHANGED <<duration, authType, size, path, outcome, noted, nRecognize, nUpload,
                 nSubmit, nPoll, offset, chunks, ci, nChunkOk>>
  /\ UNCHANGED <<kvars, lvars>>

\* mutant: the loop is left at the first chunk that fails
nextChunkStopOnFail(i, res) == IF res = "fail" THEN Len(chunks) ELSE i + 1

\* for (let i = 0; i < chunks.length; i++): the catch inside the body lets
\* the loop go on with the next chunk
nextChunk(i, res) == i + 1

\* The chunk request settles: "fail" (transcribeShortAudio threw), "empty"
\* (a result whose transcript is empty), "text". After the last chunk the
\* results are combined.
T_ChunkDone(res) ==
  /\ tpc = "chunkwait"
  /\ responses' = Append(responses, res)
  /\ chunkResults' = pushChunkResult(chunkResults, ci + 1, res)
  /\ nChunkOk' = Len(chunkResults')
  /\ ci' = nextChunk(ci, res)
  /\ IF ci' < Len(chunks)
       THEN tpc' = "chunks" /\ UNCHANGED <<outcome, transcript>>
       ELSE IF Len(chunkResults') = 0
         THEN Settle("rejected") /\ UNCHANGED transcript
         ELSE Settle("resolved") /\ transcript' = combinedTranscript(chunkResults')
  /\ UNCHANGED <<duration, authType, size, path, noted, nRecognize, nUpload, nSubmit,
                 nPoll, nChunkReq, offset, chunks>>
  /\ UNCHANGED lvars

\* a call of transcribe, whatever the credential of the service
TCall ==
  /\ QInit({})
  /\ tpc = "probe"
  /\ duration \in Durations
  /\ size \in Sizes
  /\ path = "none" /\ outcome = "none" /\ noted = FALSE
  /\ nRecognize = 0 /\ nUpload = 0 /\ nSubmit = 0 /\ nPoll = 0 /\ nChunkReq = 0
  /\ offset = 0 /\ chunks = <<>> /\ ci = 0 /\ nChunkOk = 0
  /\ responses = <<>> /\ chunkResults = <<>> /\ transcript = NoTranscript
  /\ attempts = 0 /\ nDelete = 0 /\ deleted = "none" /\ terr = "none"
  /\ MIdle /\ RIdle

\* a call of transcribe on a freshly constructed service
TStart == TCall /\ authType \in AuthTypes /\ PIdle

InitT ==
  /\ TStart
  /\ tokenCached = FALSE
  /\ srvMode = "ok"
  /\ doneAt \in DoneAts

NextT ==
  \/ T_Dispatch /\ UNCHANGED <<qvars, mvars, pvars, rvars>>
  \/ T_Encoded /\ UNCHANGED <<qvars, mvars, pvars, rvars>>
  \/ \E ok \in BOOLEAN : T_Recognized(ok) /\ UNCHANGED <<qvars, mvars, pvars, rvars>>
  \/ T_LongUpload /\ UNCHANGED <<qvars, mvars, pvars, rvars>>
  \/ T_SplitStep /\ UNCHANGED <<qvars, mvars, pvars, rvars>>
  \/ T_ChunkRequest /\ UNCHANGED <<qvars, mvars, pvars, rvars>>
  \/ \E res \in {"fail", "empty", "text"} : T_ChunkDone(res) /\ UNCHANGED <<qvars, mvars, pvars, rvars>>

SpecT == InitT /\ [][NextT]_vars

\* a step of transcribe is taken whenever one changes the state
FairSpecT == SpecT /\ WF_vars(NextT)

\* The same call on a service object in either state of its token cache
\* (getAccessToken, lines 55-57), against every behaviour of the servers. No
\* code path fills the cache, so the requests of the submit-and-poll path are
\* issued in this specification only.
InitL ==
  /\ TStart
  /\ tokenCached \in BOOLEAN
  /\ srvMode \in SrvModes
  /\ doneAt \in DoneAts

NextL ==
  \/ NextT
  \/ T_Uploaded /\ UNCHANGED <<qvars, mvars, pvars, rvars>>
  \/ T_Submitted /\ UNCHANGED <<qvars, mvars, pvars, rvars>>
  \/ T_Polled /\ UNCHANGED <<qvars, mvars, pvars, rvars>>
  \/ \E ok \in BOOLEAN : T_Deleted(ok) /\ UNCHANGED <<qvars, mvars, pvars, rvars>>

SpecL == InitL /\ [][NextL]_vars

\* C10: a transcribe call whose estimated duration is at most 60 s (payload
\* not empty, either credential type) has, when it settles, issued exactly
\* one synchronous recognize request, and no chunk request, upload, submit
\* or poll.
C10_SyncExactlyOnce ==
  (tpc = "done" /\ duration <= SyncLimit /\ size > 0) =>
    /\ nRecognize = 1
    /\ nChunkReq = 0 /\ chunks = <<>>
    /\ nUpload = 0 /\ nSubmit = 0 /\ nPoll = 0

\* C11: once transcribe has chosen its strategy for a duration above 60 s,
\* the strategy is the chunked path for an api_key credential and the
\* submit-and-poll path for a service_account credential, whatever the size
\* of the payload, and no synchronous request for the whole payload is ever
\* issued.
C11_LongAudioStrategy ==
  (path # "none" /\ duration > SyncLimit) =>
    /\ authType = "api_key" => path = "chunked"
    /\ authType = "service_account" => path = "longrunning"
    /\ nRecognize = 0
    /\ tpc # "encode" /\ tpc # "recognize"

\* both strategies were taken for long audio, one of them to the end
C11_Witness ==
  /\ tpc = "done" /\ duration = 120 /\ size = 600
  /\ authType = "api_key" /\ path = "chunked" /\ outcome = "resolved"

\* C12: in the chunk list of splitAudioIntoChunks every chunk that has a
\* successor is floor(size * 50 / duration) bytes long, and its successor
\* starts floor(size * 5 / duration) bytes before its end.
C12_ChunksOverlap ==
  \A i \in 1..(Len(chunks) - 1) :
    /\ chunks[i][2] - chunks[i][1] = (size * ChunkSeconds) \div duration
    /\ chunks[i + 1][1] = chunks[i][2] - (size * OverlapSeconds) \div duration

\* three chunks of a 120 s payload, the last one shorter, overlap not 0
C12_Witness ==
  /\ tpc = "chunks" /\ Len(chunks) = 3
  /\ chunks[2][1] < chunks[1][2]
  /\ chunks[3][2] - chunks[3][1] < chunks[1][2] - chunks[1][1]

\* C13: for every payload of positive size and every duration above 60 s the
\* splitting loop terminates, and the chunk list never has more than
\* ceil(duration / (50 - 5)) chunks.
C13_SplitTerminates ==
  /\ (tpc = "split" /\ size > 0) ~> (tpc # "split")
  /\ [](path = "chunked" =>
          Len(chunks) <= CeilDiv(duration, ChunkSeconds - OverlapSeconds))

\* C15: when the chunked path has settled, it has rejected exactly if no
\* chunk request produced a result; otherwise it has resolved, and the body
\* of its transcript is the chunks whose request came back with text, in
\* chunk order.
C15_ChunkedFailsIffNoResult ==
  (tpc = "done" /\ path = "chunked") =>
    /\ outcome = "rejected" <=> (\A i \in 1..Len(responses) : responses[i] = "fail")
    /\ outcome = "resolved" =>
         /\ transcript # NoTranscript
         /\ transcript.body =
              SelectSeq([i \in 1..Len(chunks) |-> i], LAMBDA i : responses[i] = "text")

\* three chunks: the first failed, the second came back empty, the third
\* with text
C15_Witness ==
  /\ tpc = "done" /\ path = "chunked" /\ outcome = "resolved"
  /\ responses = <<"fail", "empty", "text">>
  /\ transcript.body = <<3>>

\* C16: a transcribe call for audio above 60 s with a service_account
\* credential, against servers that accept the upload and the submit and
\* report done without error at a poll up to the 120th, has, when it settles,
\* issued one upload, then one submit, then the polls up to the one that
\* reported done, then one deletion, and has resolved.
C16_SubmitAndPoll ==
  (tpc = "done" /\ duration > SyncLimit /\ authType = "service_account"
     /\ srvMode = "ok") =>
    /\ nUpload = 1 /\ nSubmit = 1 /\ nPoll = doneAt /\ nDelete = 1
    /\ outcome = "resolved"

\* C17: pollLongRunningOperation issues at most 120 polls; when 120 polls
\* came back without done it throws the timeout error, and only then; the
\* errors of a non-2xx poll and of an operation that is done with an error
\* are other messages; the path goes on to the deletion only after a poll
\* that reported done without error.
C17_PollBounded ==
  /\ nPoll <= maxAttempts
  /\ terr = TimedOutMsg <=> (tpc = "done" /\ attempts = maxAttempts)
  /\ terr = TimedOutMsg => nPoll = maxAttempts /\ ~(srvMode = "ok" /\ doneAt <= nPoll)
  /\ terr = PollFailedMsg => srvMode = "pollFails" /\ nPoll = doneAt
  /\ terr = OperationFailedMsg => srvMode = "opError" /\ nPoll = doneAt
  /\ Cardinality({TimedOutMsg, PollFailedMsg, OperationFailedMsg}) = 3
  /\ (path = "longrunning" /\ (tpc = "deleting" \/ outcome = "resolved")) =>
       srvMode = "ok" /\ nPoll = doneAt

\* the operation never reported done: 120 polls, then the timeout error
C17_Witness ==
  /\ tpc = "done" /\ srvMode = "neverDone"
  /\ nPoll = maxAttempts /\ terr = TimedOutMsg /\ outcome = "rejected"

Times == {0, 1}         \* word times, in seconds
MaxSegs == 2            \* segments of one chunk result
MaxChunks == 2          \* chunk results handed to combineChunkResults

\* extractSegments: a segment starts with its first word and ends with its
\* last word; without word timings both times are 0
Segs == {s \in Times \X Times : s[1] <= s[2]}
SegLists == UNION {[1..n -> Segs] : n \in 0..MaxSegs}
ResultLists == UNION {[1..n -> SegLists] : n \in 0..MaxChunks}

\* mutant: the offset grows by the end of the first segment of the chunk
RECURSIVE combineSegmentsFirstEnd(_, _)
combineSegmentsFirstEnd(rs, timeOffset) ==
  IF rs = <<>> THEN <<>>
  ELSE LET segs == Head(rs)
           shifted == [k \in 1..Len(segs) |->
                         <<segs[k][1] + timeOffset, segs[k][2] + timeOffset>>]
           nextOffset == IF Len(segs) > 0 THEN timeOffset + segs[1][2]
                                          ELSE timeOffset
       IN shifted \o combineSegmentsFirstEnd(Tail(rs), nextOffset)

\* the forEach over chunkResults, with the running timeOffset
RECURSIVE combineSegments(_, _)
combineSegments(rs, timeOffset) ==
  IF rs = <<>> THEN <<>>
  ELSE LET segs == Head(rs)
           shifted == [k \in 1..Len(segs) |->
                         <<segs[k][1] + timeOffset, segs[k][2] + timeOffset>>]
           nextOffset == IF Len(segs) > 0 THEN timeOffset + segs[Len(segs)][2]
                                          ELSE timeOffset
       IN shifted \o combineSegments(Tail(rs), nextOffset)

M_Combine ==
  /\ mpc = "ready"
  /\ IF Len(chunkSegments) = 0
       THEN mpc' = "threw" /\ UNCHANGED merged
       ELSE mpc' = "merged" /\ merged' = combineSegments(chunkSegments, 0)
  /\ UNCHANGED chunkSegments

InitM ==
  /\ QInit({}) /\ TIdle /\ PIdle /\ RIdle
  /\ mpc = "ready"
  /\ chunkSegments \in ResultLists
  /\ merged = <<>>

NextM == M_Combine /\ UNCHANGED <<qvars, tvars, kvars, lvars, pvars, rvars>>

SpecM == InitM /\ [][NextM]_vars

\* C14: in the result of combineChunkResults the segment start times are
\* non-decreasing over the whole merged list, for every list of chunk results.
C14_MergedStartsSorted ==
  mpc = "merged" =>
    \A i \in 1..(Len(merged) - 1) : merged[i][1] <= merged[i + 1][1]


\* =========================================================================
\* AudioProcessingService.processAudio
\* =========================================================================
minWordsForSummary == 10
MaxResults == 2         \* results in one provider response
MaxWords == 12          \* words of a transcript

\* transcription.transcript: empty, white space only, or a number of words
Transcripts ==
  {[kind |-> "empty", words |-> 0], [kind |-> "blank", words |-> 0]}
    \cup {[kind |-> "text", words |-> n] : n \in 1..MaxWords}

\* the truth value of the string
truthy(tr) == tr.kind # "empty"

\* transcript.trim().split(/\s+/).length: the split of "" is one empty string
wordCount(tr) == IF tr.words = 0 THEN 1 ELSE tr.words

\* mutant: the collaborator is asked whatever the length
viaCollaboratorAlways(tr) == TRUE

\* wordCount >= minWordsForSummary
viaCollaborator(tr) == wordCount(tr) >= minWordsForSummary

\* mutant: the error leaves processAudio
uncaught(msg) == [pc |-> "rejected", outcome |-> NoOutcome]

\* the catch of processAudio: the failure outcome
caught(msg) ==
  [pc |-> "returned",
   outcome |-> [success |-> FALSE, error |-> msg, time |-> TRUE, summary |-> "none",
                transcription |-> FALSE]]

P_Fail(step, msg) ==
  /\ ppc' = caught(msg).pc
  /\ pOutcome' = caught(msg).outcome
  /\ pFault' = step

\* mutant: the stage is put in front of the ones already started
startStageFirst(log, s) == <<s>> \o log

\* a stage starts (its first progress report)
startStage(log, s) == Append(log, s)

\* onProgress(100, 'Processing complete') and the success outcome
P_Return(sum, log) ==
  /\ ppc' = "returned"
  /\ pStages' = startStage(log, "finalize")
  /\ pOutcome' = [success |-> TRUE, error |-> "none", time |-> TRUE, summary |-> sum,
                  transcription |-> TRUE]
  /\ UNCHANGED pFault

\* step 5 and the return
P_Tasks(tr, sum, log) ==
  /\ pSummary' = sum
  /\ IF pOptions.extractTasks /\ truthy(tr)
       THEN /\ ppc' = "tasks"
            /\ pStages' = startStage(log, "tasks")
            /\ UNCHANGED <<pOutcome, pFault>>
       ELSE P_Return(sum, log)

\* the credential check, then step 1 up to the await of extractAudioMetadata
P_Start ==
  /\ ppc = "start"
  /\ IF ~pService
       THEN P_Fail("credential", "Google API key not configured") /\ UNCHANGED pStages
       ELSE /\ ppc' = "probe"
            /\ pStages' = startStage(pStages, "metadata")
            /\ UNCHANGED <<pOutcome, pFault>>
  /\ UNCHANGED <<pService, pOptions, pTranscript, pSummary, nGenerateSummary, pProbe,
                 pNlThrew>>

\* extractAudioMetadata settles: the metadata, the error event, or the 10 s
\* timer; with the metadata steps 2 and 3 follow, up to the await of transcribe
P_Probed(res) ==
  /\ ppc = "probe"
  /\ pProbe' = res
  /\ CASE res = "ok" ->
            /\ ppc' = "transcribe"
            /\ pStages' = startStage(startStage(pStages, "config"), "transcription")
            /\ UNCHANGED <<pOutcome, pFault>>
       [] res = "error" ->
            P_Fail("probe", "Failed to load audio metadata") /\ UNCHANGED pStages
       [] res = "timeout" ->
            P_Fail("probe", "Timeout loading audio metadata") /\ UNCHANGED pStages
  /\ UNCHANGED <<pService, pOptions, pTranscript, pSummary, nGenerateSummary, pNlThrew>>

\* transcribe settles; step 4 up to the call of generateSummary or to the
\* local summary, then step 5
P_Transcribed(ok, tr) ==
  /\ ppc = "transcribe"
  /\ IF ~ok
       THEN /\ P_Fail("transcribe", "Transcription failed")
            /\ UNCHANGED <<pTranscript, pSummary, nGenerateSummary, pStages>>
       ELSE /\ pTranscript' = tr
            /\ IF pOptions.generateSummary /\ truthy(tr)
                 THEN IF viaCollaborator(tr)
                        THEN /\ ppc' = "summarize"
                             /\ nGenerateSummary' = nGenerateSummary + 1
                             /\ pStages' = startStage(pStages, "summarization")
                             /\ UNCHANGED <<pSummary, pOutcome, pFault>>
                        ELSE /\ P_Tasks(tr, "local", startStage(pStages, "summarization"))
                             /\ UNCHANGED nGenerateSummary
                 ELSE P_Tasks(tr, "none", pStages) /\ UNCHANGED nGenerateSummary
  /\ UNCHANGED <<pService, pOptions, pProbe, pNlThrew>>

\* mutant: the error of generateSummary is not caught
summaryOutcomeRethrows(ok) ==
  [fails |-> ~ok, summary |-> "collaborator"]

\* the try/catch around generateSummary: its summary, or the fallback summary
summaryOutcome(ok) ==
  [fails |-> FALSE, summary |-> IF ok THEN "collaborator" ELSE "fallback"]

\* generateSummary settles
P_Summarized(ok) ==
  /\ ppc = "summarize"
  /\ pNlThrew' = ~ok
  /\ IF summaryOutcome(ok).fails
       THEN P_Fail("summarize", "Summary generation failed")
            /\ UNCHANGED <<pSummary, pStages>>
       ELSE P_Tasks(pTranscript, summaryOutcome(ok).summary, pStages)
  /\ UNCHANGED <<pService, pOptions, pTranscript, nGenerateSummary, pProbe>>

\* extractTasks resolves (it catches its own errors)
P_TasksDone ==
  /\ ppc = "tasks"
  /\ P_Return(pSummary, pStages)
  /\ UNCHANGED <<pService, pOptions, pTranscript, pSummary, nGenerateSummary, pProbe,
                 pNlThrew>>

InitP ==
  /\ QInit({}) /\ TIdle /\ MIdle /\ RIdle
  /\ ppc = "start"
  /\ pService \in BOOLEAN
  /\ pOptions \in [generateSummary : BOOLEAN, extractTasks : BOOLEAN]
  /\ pTranscript = NoText /\ pSummary = "none" /\ pOutcome = NoOutcome
  /\ pFault = "none" /\ nGenerateSummary = 0
  /\ pProbe = "none" /\ pNlThrew = FALSE /\ pStages = <<>>

PFrame == UNCHANGED <<qvars, tvars, kvars, lvars, mvars, rvars>>

NextP ==
  \/ P_Start /\ PFrame
  \/ \E res \in {"ok", "error", "timeout"} : P_Probed(res) /\ PFrame
  \/ \E ok \in BOOLEAN, tr \in Transcripts : P_Transcribed(ok, tr) /\ PFrame
  \/ \E ok \in BOOLEAN : P_Summarized(ok) /\ PFrame
  \/ P_TasksDone /\ PFrame

SpecP == InitP /\ [][NextP]_vars

\* mutant: setApiKey builds a service_account engine
engineAuthTypeByKey(by) == IF by = "setApiKey" THEN "service_account" ELSE "api_key"

\* new GoogleSpeechToTextService({ type: 'api_key', apiKey }), in the
\* constructor of AudioProcessingService and in setApiKey
engineAuthType(by) == "api_key"

\* The service object transcribe is called on: the speechService of the
\* orchestrator (built by its constructor or by setApiKey), with processAudio
\* at its await of transcribe for an item of the queue, or a service object a
\* client built itself with either credential type.
Owners == {"client", "constructor", "setApiKey"}

InitO ==
  /\ TCall
  /\ tokenCached \in BOOLEAN
  /\ srvMode \in SrvModes
  /\ doneAt \in DoneAts
  /\ \E owner \in Owners :
       IF owner = "client"
         THEN authType \in AuthTypes /\ PIdle
         ELSE /\ authType = engineAuthType(owner)
              /\ ppc = "transcribe" /\ pService = TRUE
              /\ pOptions = [generateSummary |-> TRUE, extractTasks |-> FALSE]
              /\ pTranscript = NoText /\ pSummary = "none" /\ pOutcome = NoOutcome
              /\ pFault = "none" /\ nGenerateSummary = 0
              /\ pProbe = "ok" /\ pNlThrew = FALSE
              /\ pStages = startStage(startStage(startStage(<<>>, "metadata"),
                                                  "config"), "transcription")

SpecO == InitO /\ [][NextL]_vars

\* C19 as stated: processAudio never rejects; when it has returned, the
\* outcome carries the elapsed time and has success = false with a non-empty
\* error message exactly if a step or a collaborator failed (credential,
\* metadata probe, transcription, summarization), success = true otherwise.
C19_AnyFailureFails ==
  /\ ppc # "rejected"
  /\ ppc = "returned" =>
       /\ pOutcome.time
       /\ pOutcome.success <=> (pFault = "none" /\ pSummary # "fallback")
       /\ ~pOutcome.success => pOutcome.error \notin {"none", ""}

\* C19, amended: processAudio never rejects; when it has returned, the
\* outcome carries the elapsed time and has success = false with a non-empty
\* error message exactly if the credential check, the metadata probe or the
\* transcription failed; a failure of the summarization collaborator leaves
\* success = true, with the fallback summary.
C19_NeverRejects ==
  /\ ppc # "rejected"
  /\ ppc = "returned" =>
       /\ pOutcome.time
       /\ pOutcome.success <=> pFault = "none"
       /\ ~pOutcome.success => pOutcome.error \notin {"none", ""}
       /\ pSummary = "fallback" => pOutcome.success /\ pOutcome.summary = "fallback"
  /\ pFault # "none" => ppc = "returned"

\* the transcription failed and processAudio returned the failure outcome
C19_Witness ==
  /\ ppc = "returned" /\ pFault = "transcribe"
  /\ ~pOutcome.success /\ pOutcome.error = "Transcription failed"

C21_CollaboratorFailureFallsBack ==
  pNlThrew =>
    /\ pOptions.generateSummary /\ pTranscript.words >= minWordsForSummary
    /\ pFault = "none"
    /\ ppc = "returned" => pOutcome.success /\ pOutcome.summary = "fallback"

\* generateSummary threw and the success outcome was returned
C21_Witness ==
  /\ pNlThrew /\ ppc = "returned"
  /\ pOutcome.success /\ pOutcome.summary = "fallback"

\* C24: a metadata probe that fails or times out does not fail the run: the
\* orchestrator goes on to config resolution and transcription.
C24_ProbeFailureTolerated ==
  pProbe \in {"error", "timeout"} =>
    /\ pFault # "probe"
    /\ \E i \in 1..Len(pStages) : pStages[i] = "transcription"

StageOrder ==
  <<"metadata", "config", "transcription", "summarization", "tasks", "finalize">>
Rank(s) == CHOOSE i \in 1..Len(StageOrder) : StageOrder[i] = s
LastStage == pStages[Len(pStages)]

\* C25: the stages of one run start in the order metadata, config,
\* transcription, summarization (only if requested), tasks (only if
\* requested), finalize; the stage the run waits for is the last one started;
\* after a failed transcription no further stage starts.
C25_StagesInOrder ==
  /\ \A i \in 1..(Len(pStages) - 1) : Rank(pStages[i]) < Rank(pStages[i + 1])
  /\ \A i \in 1..Len(pStages) : i <= 3 => pStages[i] = StageOrder[i]
  /\ \A i \in 1..Len(pStages) :
       /\ pStages[i] = "summarization" => pOptions.generateSummary
       /\ pStages[i] = "tasks" => pOptions.extractTasks
  /\ ppc = "probe" => LastStage = "metadata"
  /\ ppc = "transcribe" => LastStage = "transcription"
  /\ ppc = "summarize" => LastStage = "summarization"
  /\ ppc = "tasks" => LastStage = "tasks"
  /\ (ppc = "returned" /\ pOutcome.success) => LastStage = "finalize"
  /\ pFault = "transcribe" => pStages = SubSeq(StageOrder, 1, 3)

\* a run with summary and tasks requested went through all six stages
C25_Witness ==
  ppc = "returned" /\ pStages = StageOrder

\* the byte ranges of the chunks, in seconds of the payload
ChunkSeconds_(c) == <<(c[1] * duration) \div size, (c[2] * duration) \div size>>

\* C28: for a payload of 120 s and 600 bytes with an api_key credential the
\* split yields the three chunks [0,50), [45,95), [90,120) (in seconds), and
\* when all three come back with text the transcript is the marker for three
\* chunks followed by the three transcripts in chunk order.
C28_TwoMinuteScenario ==
  (path = "chunked" /\ duration = 120 /\ size = 600
     /\ tpc \in {"chunks", "chunkwait", "done"}) =>
    /\ [i \in 1..Len(chunks) |-> ChunkSeconds_(chunks[i])]
         = <<<<0, 50>>, <<45, 95>>, <<90, 120>>>>
    /\ (tpc = "done" /\ responses = <<"text", "text", "text">>) =>
         transcript = [marker |-> 3, body |-> <<1, 2, 3>>]

C28_Witness ==
  /\ tpc = "done" /\ duration = 120 /\ size = 600 /\ authType = "api_key"
  /\ responses = <<"text", "text", "text">> /\ outcome = "resolved"
  /\ transcript.marker = 3

\* C29 as stated: the marker of the transcript of the chunked path states the
\* number of chunks the payload was split into, also when chunks failed.
C29_MarkerCountsChunks ==
  (tpc = "done" /\ path = "chunked" /\ outcome = "resolved") =>
    transcript.marker = Len(chunks)

\* C29, amended: the marker states the number of chunks whose request
\* produced a result (with or without text); it is the number of chunks the
\* payload was split into only when no chunk failed.
C29_MarkerCountsResults ==
  (tpc = "done" /\ path = "chunked" /\ outcome = "resolved") =>
    /\ transcript.marker
         = Cardinality({i \in 1..Len(responses) : responses[i] # "fail"})
    /\ transcript.marker = Len(chunks)
         <=> (\A i \in 1..Len(responses) : responses[i] # "fail")

\* three chunks, the second failed: the marker says 2
C29_Witness ==
  /\ tpc = "done" /\ path = "chunked" /\ outcome = "resolved"
  /\ Len(chunks) = 3 /\ responses = <<"text", "fail", "empty">>
  /\ transcript.marker = 2

RECURSIVE SumLastEnds(_)
SumLastEnds(k) ==
  IF k = 0 THEN 0
  ELSE SumLastEnds(k - 1)
         + (IF Len(chunkSegments[k]) > 0
              THEN chunkSegments[k][Len(chunkSegments[k])][2] ELSE 0)

RECURSIVE SegsBefore(_)
SegsBefore(k) ==
  IF k = 0 THEN 0 ELSE SegsBefore(k - 1) + Len(chunkSegments[k])

ChunksInFlight == nChunkReq - Len(responses)

\* C31: in the chunked path at most one chunk request is in flight; the
\* k-th request is that of chunk k and is issued only when the k-1 earlier
\* ones have settled; and when the path ends every chunk has been requested
\* exactly once, whether or not earlier chunks failed.
C31_OneChunkAtATime ==
  path = "chunked" =>
    /\ ChunksInFlight \in {0, 1}
    /\ ChunksInFlight = 1 <=> tpc = "chunkwait"
    /\ ci = Len(responses)
    /\ nChunkReq <= Len(chunks)
    /\ \A k \in 1..Len(chunkResults) :
         /\ chunkResults[k].chunk \in 1..Len(responses)
         /\ responses[chunkResults[k].chunk] # "fail"
         /\ k > 1 => chunkResults[k - 1].chunk < chunkResults[k].chunk
    /\ (tpc = "done" /\ chunks # <<>>) =>
         nChunkReq = Len(chunks) /\ Len(responses) = Len(chunks)

\* three chunks, the first and the last failed: all three were requested
C31_Witness ==
  /\ tpc = "done" /\ path = "chunked" /\ Len(chunks) = 3
  /\ responses = <<"fail", "text", "fail">>
  /\ nChunkReq = 3 /\ outcome = "resolved"

\* C32: a run of the submit-and-poll path whose operation completed and whose
\* object deletion failed (the token or the DELETE request) resolves, with no
\* error, as a run whose deletion succeeded does.
C32_CleanupNeverEscalates ==
  /\ (tpc = "done" /\ deleted # "none") => (outcome = "resolved" /\ terr = "none")
  /\ (tpc = "done" /\ path = "longrunning" /\ outcome = "rejected") => deleted = "none"

\* the DELETE request was issued and failed, the run resolved
C32_Witness ==
  /\ tpc = "done" /\ path = "longrunning" /\ nDelete = 1 /\ deleted = "failed"
  /\ outcome = "resolved"

\* C39: when the floored chunk size is greater than the floored overlap size,
\* the chunks of splitAudioIntoChunks start at 0, end at the size of the
\* payload, and every byte offset of the payload lies in one of them.
C39_ChunksCoverPayload ==
  (path = "chunked" /\ tpc \in {"chunks", "chunkwait", "done"}
     /\ chunkSize > overlapSize) =>
    /\ Len(chunks) >= 1
    /\ chunks[1][1] = 0
    /\ chunks[Len(chunks)][2] = size
    /\ \A b \in 0..(size - 1) :
         \E i \in 1..Len(chunks) : chunks[i][1] <= b /\ b < chunks[i][2]

\* a payload of 600 bytes and 300 s: more than three chunks, the last one
\* shorter than the others
C39_Witness ==
  /\ tpc = "chunks" /\ size = 600 /\ duration = 300
  /\ Len(chunks) > 3
  /\ chunks[Len(chunks)][2] = 600
  /\ chunks[Len(chunks)][2] - chunks[Len(chunks)][1] < chunkSize

\* C40: a transcribe call on the engine of the orchestrator has the api_key
\* credential: it issues no upload, no long-running submit, no poll and no
\* deletion, and for a duration above 60 s its strategy is the chunked path.
C40_OrchestratorNeverLongRuns ==
  pService =>
    /\ authType = "api_key"
    /\ nUpload = 0 /\ nSubmit = 0 /\ nPoll = 0 /\ nDelete = 0
    /\ path # "longrunning"
    /\ (path # "none" /\ duration > SyncLimit) => path = "chunked"

\* a 300 s payload on the orchestrator's engine went through the chunked path
C40_Witness ==
  /\ pService /\ ppc = "transcribe"
  /\ tpc = "done" /\ duration = 300 /\ path = "chunked" /\ outcome = "resolved"
  /\ nChunkReq > 0


\* =========================================================================
\* GoogleSpeechToTextService.processResponse (lib/google-speech.ts)
\* =========================================================================
\* alternatives[0].transcript of a result: "none" when the result has no
\* alternative or the alternative no transcript
Texts == {"none", "", " ", "a", " a", "b"}

\* alternatives[0].confidence of a result: NoConf when it is not a number
NoConf == -1
Confs == {NoConf, 40, 80}

TopAlternatives == [text : Texts, conf : Confs]

Responses == UNION {[1..n -> TopAlternatives] : n \in 0..MaxResults}

Callers == {"transcribe", "transcribeShortAudio", "processLongRunningResponse"}

\* String.prototype.trim on the texts above
trim(s) == CASE s = " " -> "" [] s = " a" -> "a" [] OTHER -> s

\* result.alternatives && result.alternatives[0]?.transcript
hasTopTranscript(r) == r.text \notin {"none", ""}

\* data.results?.filter(...) || []
transcriptionResults(data) == SelectSeq(data, hasTopTranscript)

\* .map(result => transcript?.trim()).filter(transcript => transcript && transcript.length > 0)
transcripts(trs) ==
  SelectSeq([i \in 1..Len(trs) |-> trim(trs[i].text)], LAMBDA s : s # "")

\* mutant: duplicates are kept
uniqueTranscriptsAll(ts) == ts

\* Array.from(new Set(transcripts)): the first occurrences, in order
RECURSIVE uniqueTranscripts(_)
uniqueTranscripts(ts) ==
  IF ts = <<>> THEN <<>>
  ELSE LET front == uniqueTranscripts(SubSeq(ts, 1, Len(ts) - 1))
           last == ts[Len(ts)]
       IN IF last \in Range(front) THEN front ELSE Append(front, last)

\* .map(result => confidence).filter(conf => typeof conf === 'number')
validConfidences(trs) ==
  SelectSeq([i \in 1..Len(trs) |-> trs[i].conf], LAMBDA c : c # NoConf)

RECURSIVE sumOf(_)
sumOf(cs) == IF cs = <<>> THEN 0 ELSE Head(cs) + sumOf(Tail(cs))

\* reduce(...) / validConfidences.length, or 0: the quotient as a fraction
average(cs) ==
  IF Len(cs) > 0 THEN [num |-> sumOf(cs), den |-> Len(cs)]
                 ELSE [num |-> 0, den |-> 1]

\* the transcript (the pieces that join(' ') puts together) and the confidence
processResponse(data) ==
  LET trs == transcriptionResults(data)
  IN [transcript |-> uniqueTranscripts(transcripts(trs)),
      confidence |-> average(validConfidences(trs))]

\* what each caller makes of the provider response
normalizedBy(caller, data) ==
  CASE caller = "transcribe" -> processResponse(data)
    [] caller = "transcribeShortAudio" -> processResponse(data)
    [] caller = "processLongRunningResponse" -> processResponse(data)

R_Process ==
  /\ rpc = "ready"
  /\ rResult' = normalizedBy(rCaller, rData)
  /\ rpc' = "done"
  /\ UNCHANGED <<rCaller, rData>>

InitR ==
  /\ QInit({}) /\ TIdle /\ MIdle /\ PIdle
  /\ rpc = "ready"
  /\ rCaller \in Callers
  /\ rData \in Responses
  /\ rResult = NoNormalized

NextR == R_Process /\ UNCHANGED <<qvars, tvars, kvars, lvars, mvars, pvars>>

SpecR == InitR /\ [][NextR]_vars

\* ---- the normalization as the claim states it, over the indices of rData
Usable(i) == rData[i].text \notin {"none", ""}

\* the result is usable, its trimmed transcript is not empty and no earlier
\* usable result has the same trimmed transcript
Kept(i) ==
  /\ Usable(i)
  /\ trim(rData[i].text) # ""
  /\ \A k \in 1..(i - 1) : ~(Usable(k) /\ trim(rData[k].text) = trim(rData[i].text))

KeptTranscripts ==
  LET idx == SelectSeq([i \in 1..Len(rData) |-> i], Kept)
  IN [k \in 1..Len(idx) |-> trim(rData[idx[k]].text)]

RECURSIVE SumConfs(_)
SumConfs(I) ==
  IF I = {} THEN 0
  ELSE LET i == CHOOSE x \in I : TRUE IN rData[i].conf + SumConfs(I \ {i})

\* the arithmetic mean of the numeric confidences of the results in I is m
IsMeanOver(I, m) ==
  LET N == {i \in I : rData[i].conf # NoConf}
  IN IF N = {} THEN m.num = 0
     ELSE m.num * Cardinality(N) = SumConfs(N) * m.den

\* C33 as stated: the transcript is the first occurrences of the trimmed
\* non-empty top transcripts, in order, and the confidence is the mean of the
\* numeric confidences of the results kept for the transcript (0 when there
\* is none), whichever path calls the normalization.
C33_MeanOverKept ==
  rpc = "done" =>
    /\ rResult.transcript = KeptTranscripts
    /\ IsMeanOver({i \in 1..Len(rData) : Kept(i)}, rResult.confidence)

\* C33, amended: the transcript is as stated; the confidence is the mean of
\* the numeric confidences of all results that have a non-empty top
\* transcript, those dropped as duplicates or as blank included (0 when there
\* is none); the three callers give the same result.
C33_MeanOverUsable ==
  rpc = "done" =>
    /\ rResult.transcript = KeptTranscripts
    /\ IsMeanOver({i \in 1..Len(rData) : Usable(i)}, rResult.confidence)
    /\ \A c \in Callers : normalizedBy(c, rData) = rResult

\* two channels with the same transcript and different confidences: one
\* transcript, the mean of both confidences
C33_Witness ==
  /\ rpc = "done"
  /\ rData = <<[text |-> "a", conf |-> 80], [text |-> " a", conf |-> 40]>>
  /\ rResult = [transcript |-> <<"a">>, confidence |-> [num |-> 120, den |-> 2]]

====
